---- MODULE Spec2Model ----
(***************************************************************************)
(* State-machine model of the after-school lessons backend:                *)
(*   - the Express API (src/unnamed/part_000): GET /lessons, GET /search,  *)
(*     POST /orders, PUT /lessons/:id;                                     *)
(*   - the seeding script (src/seed.js).                                   *)
(* The document store is modelled by two sequences of documents, in        *)
(* insertion (natural) order.  JavaScript values are modelled by tagged    *)
(* records so that strings, numbers, NaN and undefined stay distinct.      *)
(* The store itself does not fail: connection and query errors are not     *)
(* modelled, and request bodies hold lesson fields only (no _id, and at    *)
(* least one field, since an empty $set is refused by older servers).      *)
(***************************************************************************)
EXTENDS Integers, Sequences, FiniteSets, TLC

VARIABLES
    lessons,   \* the "lessons" collection: sequence of lesson documents
    orders,    \* the "orders" collection: sequence of order documents
    nextId,    \* ObjectId generator: ids are issued in creation order
    seedPc,    \* position of the seeding script: "idle" or "deleted"
    req,       \* the request handled by the last step
    res,       \* the response sent by the last step
    nReq       \* number of requests and seeding runs started so far

vars == <<lessons, orders, nextId, seedPc, req, res, nReq>>

(***************************************************************************)
(* Bounds of the model.                                                    *)
(***************************************************************************)
MaxRequests == 2 \* requests and seeding runs per behaviour
MaxItems == 2    \* line items per order request

(***************************************************************************)
(* JavaScript values.                                                      *)
(***************************************************************************)
Undef == [t |-> "undef", s |-> "", n |-> 0]
NaN == [t |-> "nan", s |-> "", n |-> 0]
Str(x) == [t |-> "str", s |-> x, n |-> 0]
Num(x) == [t |-> "num", s |-> "", n |-> x]
\* a JSON value that is neither a string, a number nor an array
Obj == [t |-> "obj", s |-> "", n |-> 0]

\* ToBoolean, as applied by !, || and the if statement
Truthy(v) ==
    \/ v.t = "str" /\ v.s # ""
    \/ v.t = "num" /\ v.n # 0
    \/ v.t = "obj"

\* a || b
Or(a, b) == IF Truthy(a) THEN a ELSE b

\* a ?? b   (no value of the model is null)
Coalesce(a, b) == IF a.t = "undef" THEN b ELSE a

(***************************************************************************)
(* Characters and strings.  A string is a TLA+ string; its i-th character  *)
(* is SubSeq(s, i, i).                                                     *)
(***************************************************************************)
CharAt(s, i) == SubSeq(s, i, i)

UpperToLower ==
    [c \in {"A","B","C","D","E","F","G","H","I","J","K","L","M",
            "N","O","P","Q","R","S","T","U","V","W","X","Y","Z"} |->
        CASE c = "A" -> "a" [] c = "B" -> "b" [] c = "C" -> "c" [] c = "D" -> "d"
          [] c = "E" -> "e" [] c = "F" -> "f" [] c = "G" -> "g" [] c = "H" -> "h"
          [] c = "I" -> "i" [] c = "J" -> "j" [] c = "K" -> "k" [] c = "L" -> "l"
          [] c = "M" -> "m" [] c = "N" -> "n" [] c = "O" -> "o" [] c = "P" -> "p"
          [] c = "Q" -> "q" [] c = "R" -> "r" [] c = "S" -> "s" [] c = "T" -> "t"
          [] c = "U" -> "u" [] c = "V" -> "v" [] c = "W" -> "w" [] c = "X" -> "x"
          [] c = "Y" -> "y" [] c = "Z" -> "z"]

LowerChar(c) == IF c \in DOMAIN UpperToLower THEN UpperToLower[c] ELSE c

RECURSIVE toLowerCase(_)
toLowerCase(s) ==
    IF s = "" THEN ""
    ELSE LowerChar(CharAt(s, 1)) \o toLowerCase(SubSeq(s, 2, Len(s)))

RECURSIVE trim(_)
trim(s) ==
    IF s = "" THEN ""
    ELSE IF CharAt(s, 1) = " " THEN trim(SubSeq(s, 2, Len(s)))
    ELSE IF CharAt(s, Len(s)) = " " THEN trim(SubSeq(s, 1, Len(s) - 1))
    ELSE s

DigitValue ==
    [c \in {"0","1","2","3","4","5","6","7","8","9"} |->
        CASE c = "0" -> 0 [] c = "1" -> 1 [] c = "2" -> 2 [] c = "3" -> 3
          [] c = "4" -> 4 [] c = "5" -> 5 [] c = "6" -> 6 [] c = "7" -> 7
          [] c = "8" -> 8 [] c = "9" -> 9]

IsDigits(s) == s # "" /\ \A i \in 1..Len(s) : CharAt(s, i) \in DOMAIN DigitValue

RECURSIVE DigitsValue(_)
DigitsValue(s) ==
    IF s = "" THEN 0
    ELSE 10 * DigitsValue(SubSeq(s, 1, Len(s) - 1)) + DigitValue[CharAt(s, Len(s))]

\* Number(string): the decimal-integer part of StringNumericLiteral.  The
\* strings of the model hold no hex, exponent, fraction or "Infinity" literal.
StringToNumber(s) ==
    LET t == trim(s) IN
    IF t = "" THEN Num(0)
    ELSE IF IsDigits(t) THEN Num(DigitsValue(t))
    ELSE IF CharAt(t, 1) = "-" /\ IsDigits(SubSeq(t, 2, Len(t)))
        THEN Num(0 - DigitsValue(SubSeq(t, 2, Len(t))))
    ELSE IF CharAt(t, 1) = "+" /\ IsDigits(SubSeq(t, 2, Len(t)))
        THEN Num(DigitsValue(SubSeq(t, 2, Len(t))))
    ELSE NaN

\* Number(v)
Number(v) ==
    CASE v.t = "num" -> v
      [] v.t = "str" -> StringToNumber(v.s)
      [] OTHER -> NaN

\* String(str ?? '').trim().toLowerCase(); a query parameter is a string or absent
normalize(v) == IF v.t = "str" THEN toLowerCase(trim(v.s)) ELSE ""


(***************************************************************************)
(* ObjectId.  Ids are issued in creation order and are modelled by the     *)
(* positive integers; the string form of an id is its decimal numeral (the *)
(* source's is 24 hexadecimal digits).                                     *)
(***************************************************************************)
DigitChar == <<"0","1","2","3","4","5","6","7","8","9">>

RECURSIVE IdToString(_)
\* ObjectId.prototype.toString
IdToString(n) ==
    IF n < 10 THEN DigitChar[n + 1]
    ELSE IdToString(n \div 10) \o DigitChar[(n % 10) + 1]

\* new ObjectId(v) throws unless v has the string form of an id
ObjectIdThrows(v) == ~(v.t = "str" /\ IsDigits(v.s))

\* new ObjectId(v), for a v on which it does not throw
ObjectId(v) == DigitsValue(v.s)

\* ObjectId.prototype.getTimestamp: the creation instant held in the id
getTimestamp(id) == id

(***************************************************************************)
(* The fixed list of the seeding script.                                   *)
(***************************************************************************)
LessonFields ==
    {"subject", "topic", "location", "price", "spaces", "space", "description", "image"}

\* one object literal of seedLessons: legacy field names topic and space
SeedEntry(topic, location, price, space, description, image) ==
    [subject |-> Undef, topic |-> Str(topic), location |-> Str(location),
     price |-> Num(price), spaces |-> Undef, space |-> Num(space),
     description |-> Str(description), image |-> Str(image)]

seedLessons ==
    <<
    SeedEntry("Algebra II", "Room 204", 38, 5,
        "Quadratic, exponential, and polynomial problem solving with guided practice.",
        "https://www.svgrepo.com/show/311604/math.svg"),
    SeedEntry("Biology Lab", "Science Lab B", 42, 5,
        "Microscope work and dissections that bring cellular biology to life.",
        "https://www.svgrepo.com/show/385149/biology-experiment-lab-laboratory-research-science.svg"),
    SeedEntry("Chemistry Honors", "Chemistry Lab", 44, 5,
        "Reactions, stoichiometry, and weekly safety-focused experiments.",
        "https://www.svgrepo.com/show/82732/chemistry-lab-instruments.svg"),
    SeedEntry("Physics Workshop", "Innovation Studio", 46, 5,
        "Motion labs, energy challenges, and simple robotics tie-ins.",
        "https://www.svgrepo.com/show/197819/physics-science.svg"),
    SeedEntry("English Literature", "Library Commons", 36, 5,
        "Close reading, essay writing, and seminar-style discussions.",
        "https://www.svgrepo.com/show/230246/books-literature.svg"),
    SeedEntry("World History", "Room 112", 34, 5,
        "Global movements and key decisions from ancient to modern eras.",
        "https://www.svgrepo.com/show/520522/globe.svg"),
    SeedEntry("Computer Science Principles", "Tech Lab", 48, 5,
        "Algorithms, interactive apps, and ethical computing foundations.",
        "https://www.svgrepo.com/show/294200/coding-programming-language.svg"),
    SeedEntry("French Conversation", "Language Studio", 33, 5,
        "Roleplay, listening drills, and everyday vocabulary.",
        "https://www.svgrepo.com/show/43090/french.svg"),
    SeedEntry("Studio Art", "Art Atelier", 40, 5,
        "Charcoal, acrylics, and mixed media portfolio pieces.",
        "https://www.svgrepo.com/show/205590/paint-palette-art-and-design.svg"),
    SeedEntry("Music Ensemble", "Music Room", 37, 5,
        "Contemporary charts and small-group performance skills.",
        "https://www.svgrepo.com/show/109458/music-notes.svg"),
    SeedEntry("AP Economics", "Room 305", 45, 5,
        "Market simulations and data-driven policy case studies.",
        "https://www.svgrepo.com/show/11834/economy.svg"),
    SeedEntry("Health & Wellness", "Wellness Center", 32, 5,
        "Nutrition, mindfulness, and fitness planning for balanced living.",
        "https://www.svgrepo.com/show/339260/heart-health.svg"),
    SeedEntry("Environmental Science", "Greenhouse Lab", 41, 5,
        "Ecosystems, sustainability challenges, and field data collection.",
        "https://www.svgrepo.com/show/456300/leaf-globe.svg")
    >>

\* a stored document: the inserted fields and the _id the store assigns
WithId(entry, id) == [f \in LessonFields \cup {"_id"} |-> IF f = "_id" THEN id ELSE entry[f]]

\* the fields of a stored document other than _id
Fields(doc) == [f \in LessonFields |-> doc[f]]

(***************************************************************************)
(* Store queries used by the API.                                          *)
(***************************************************************************)
\* new RegExp(q, 'i') throws a SyntaxError on an unterminated group.  The
\* patterns of the model are built from letters, digits, blanks, "." and "(".
RegExpThrows(q) == \E i \in 1..Len(q) : CharAt(q, i) = "("

\* one pattern character against one subject character, ignoring case;
\* "." matches any character (the strings of the model hold no line break)
AtomMatches(p, c) == p = "." \/ LowerChar(c) = LowerChar(p)

\* new RegExp(q, 'i').test(s): the pattern matches at some position of s
RegExpTest(q, s) ==
    \E i \in 1..(Len(s) - Len(q) + 1) :
        \A k \in 1..Len(q) : AtomMatches(CharAt(q, k), CharAt(s, i + k - 1))

\* the filter { field: regex }: only a string value can match
MatchesRegex(v, q) == v.t = "str" /\ RegExpTest(q, v.s)

\* the filter { field: number }: only an equal number matches
MatchesNumber(v, num) == v.t = "num" /\ v.n = num.n

\* the $or filter built by GET /search for a non-empty q
orConditions(doc, q) ==
    LET numberVal == Number(Str(q))
        isNumber == numberVal.t # "nan"
    IN  \/ MatchesRegex(doc.subject, q)
        \/ MatchesRegex(doc.topic, q)
        \/ MatchesRegex(doc.location, q)
        \/ MatchesRegex(doc.description, q)
        \/ /\ isNumber
           /\ \/ MatchesNumber(doc.price, numberVal)
              \/ MatchesNumber(doc.spaces, numberVal)
              \/ MatchesNumber(doc.space, numberVal)

\* collection.find(filter).toArray(), in natural order
Find(coll, q) == SelectSeq(coll, LAMBDA doc : orConditions(doc, q))

\* the response object of one lesson document
lessonPayload(doc) ==
    [id |-> IdToString(doc._id),
     subject |-> Or(doc.subject, doc.topic),
     location |-> doc.location,
     price |-> doc.price,
     spaces |-> Coalesce(doc.spaces, doc.space),
     description |-> doc.description,
     image |-> doc.image,
     addedAt |-> getTimestamp(doc._id)]

\* docs.map(...)
Payload(docs) == [i \in 1..Len(docs) |-> lessonPayload(docs[i])]

Response(status, error, body) == [status |-> status, error |-> error, body |-> body]

\* what GET /lessons answers on the collection coll
listAll(coll) == Response(200, "", Payload(coll))

\* what GET /search?q=qv answers on the collection coll
search(coll, qv) ==
    LET q == normalize(qv) IN
    IF q = "" THEN Response(200, "", Payload(coll))
    ELSE IF RegExpThrows(q) THEN Response(500, "Search failed", <<>>)
    ELSE Response(200, "", Payload(Find(coll, q)))

(***************************************************************************)
(* Requests.                                                               *)
(***************************************************************************)
SearchTokens ==
    {Undef, Str("  "), Str(" BIO "), Str("MUSIC"), Str("music"),
     Str("5"), Str("42"), Str("r.o"), Str("(")}

(***************************************************************************)
(* Initial state: the server is connected to a freshly seeded database.    *)
(***************************************************************************)
\* insertMany(list): the documents of list, with ids issued from first on
Inserted(list, first) == [i \in 1..Len(list) |-> WithId(list[i], first + i - 1)]

NoRequest == [op |-> "none"]

Init ==
    /\ lessons = Inserted(seedLessons, 1)
    /\ orders = <<>>
    /\ nextId = Len(seedLessons) + 1
    /\ seedPc = "idle"
    /\ req = NoRequest
    /\ res = Response(0, "", <<>>)
    /\ nReq = 0

(***************************************************************************)
(* GET /lessons and GET /search.                                           *)
(***************************************************************************)
GetLessons ==
    /\ nReq < MaxRequests
    /\ nReq' = nReq + 1
    /\ req' = [op |-> "listAll"]
    /\ res' = listAll(lessons)
    /\ UNCHANGED <<lessons, orders, nextId, seedPc>>

GetSearch ==
    \E qv \in SearchTokens :
        /\ nReq < MaxRequests
        /\ nReq' = nReq + 1
        /\ req' = [op |-> "search", q |-> qv]
        /\ res' = search(lessons, qv)
        /\ UNCHANGED <<lessons, orders, nextId, seedPc>>

(***************************************************************************)
(* POST /orders.                                                           *)
(***************************************************************************)
\* request bodies: items is an array (arr) of elems, or some other value
Array(elems) == [arr |-> TRUE, elems |-> elems]
NotArray == [arr |-> FALSE, elems |-> <<>>]

Item(lessonId, spaces, quantity) ==
    [lessonId |-> lessonId, spaces |-> spaces, quantity |-> quantity]

\* the line items a client sends in lists: the id of a seeded lesson, the id
\* of no lesson yet (the first one a reseed would issue) and a malformed id
OrderItems ==
    {Item(Str("2"), Str("2"), Undef),
     Item(Str("14"), Undef, Num(3)),
     Item(Str("zz"), Num(2), Undef)}

ItemLists == UNION {[1..k -> OrderItems] : k \in 1..MaxItems}

OrderBody(name, phone, items) ==
    [name |-> name, phone |-> phone, email |-> Str("ann@example.org"), items |-> items]

OrderBodies ==
    {OrderBody(Str("Ann"), Str("07"), Array(l)) : l \in ItemLists}
    \cup
    {OrderBody(Str("Ann"), Str("07"), it) :
        it \in {NotArray, Array(<<>>),
                Array(<<Item(Str("2"), Undef, Undef)>>),
                Array(<<Item(Str("2"), Num(0), Num(3))>>)}}
    \cup
    {OrderBody(n, Str("07"), Array(<<Item(Str("2"), Num(2), Undef)>>)) :
        n \in {Undef, Str("")}}
    \cup
    {OrderBody(Str("Ann"), p, Array(<<Item(Str("2"), Num(2), Undef)>>)) :
        p \in {Undef, Str("")}}

\* the guard with the test of name left out
MissingOrderFields_NameUnchecked(body) ==
    \/ ~Truthy(body.phone)
    \/ ~body.items.arr
    \/ Len(body.items.elems) = 0

\* !name || !phone || !Array.isArray(items) || !items.length
MissingOrderFields(body) ==
    \/ ~Truthy(body.name)
    \/ ~Truthy(body.phone)
    \/ ~body.items.arr
    \/ Len(body.items.elems) = 0

\* the line item with its count stored as sent, not passed through Number
parsedItem_CountAsSent(item) ==
    [lessonId |-> ObjectId(item.lessonId),
     spaces |-> Or(item.spaces, Or(item.quantity, Num(0)))]

\* one element of items.map(...)
parsedItem(item) ==
    [lessonId |-> ObjectId(item.lessonId),
     spaces |-> Number(Or(item.spaces, Or(item.quantity, Num(0))))]

parsedItems(elems) == [i \in 1..Len(elems) |-> parsedItem(elems[i])]

\* new Date(): the logical instant, which advances with every document created
Now == nextId

\* the document handed to insertOne
orderDoc(body) ==
    [name |-> body.name, phone |-> body.phone, email |-> body.email,
     items |-> parsedItems(body.items.elems), createdAt |-> Now]

\* insertOne(doc): the stored document carries the id the store issues
insertOne(coll, doc, id) ==
    Append(coll, [f \in DOMAIN doc \cup {"_id"} |-> IF f = "_id" THEN id ELSE doc[f]])

PostOrders ==
    \E body \in OrderBodies :
        /\ nReq < MaxRequests
        /\ nReq' = nReq + 1
        /\ req' = [op |-> "createOrder", body |-> body]
        /\ IF MissingOrderFields(body)
           THEN /\ res' = Response(400, "Missing required order fields", <<>>)
                /\ UNCHANGED <<orders, nextId>>
           ELSE IF \E i \in 1..Len(body.items.elems) :
                       ObjectIdThrows(body.items.elems[i].lessonId)
           THEN /\ res' = Response(500, "Failed to create order", <<>>)
                /\ UNCHANGED <<orders, nextId>>
           ELSE /\ orders' = insertOne(orders, orderDoc(body), nextId)
                /\ nextId' = nextId + 1
                /\ res' = Response(201, "",
                       [id |-> IdToString(nextId), doc |-> orders'[Len(orders')]])
        /\ UNCHANGED <<lessons, seedPc>>

(***************************************************************************)
(* PUT /lessons/:id.                                                       *)
(***************************************************************************)
NoFields == [f \in LessonFields |-> Undef]

\* request bodies: partial sets of lesson fields (Undef: the field is not sent)
LessonUpdates ==
    {[NoFields EXCEPT !.spaces = Str("4")],
     [NoFields EXCEPT !.spaces = Num(3)],
     [NoFields EXCEPT !.spaces = Num(0 - 1)],
     [NoFields EXCEPT !.spaces = Str("many")],
     [NoFields EXCEPT !.subject = Str("Art Club"), !.price = Num(5)]}

\* the id of a seeded lesson, of no lesson yet, and a malformed id
LessonIds == {Str("2"), Str("14"), Str("zz")}

\* if (update.spaces !== undefined) update.spaces = Number(update.spaces)
coerceSpaces(update) ==
    IF update.spaces # Undef
    THEN [update EXCEPT !.spaces = Number(update.spaces)]
    ELSE update

\* the update replacing the document instead of patching it
applySet_Replace(doc, update) ==
    [f \in DOMAIN doc |-> IF f \in DOMAIN update THEN update[f] ELSE doc[f]]

\* { $set: update } applied to one document
applySet(doc, update) ==
    [f \in DOMAIN doc |->
        IF f \in DOMAIN update /\ update[f] # Undef THEN update[f] ELSE doc[f]]

\* positions of the documents with this _id
Matching(coll, id) == {i \in 1..Len(coll) : coll[i]._id = id}

\* the update run with upsert: a document is created when none matches
findOneAndUpdate_Upsert(coll, id, update) ==
    IF Matching(coll, id) = {}
    THEN Append(coll, [f \in LessonFields \cup {"_id"} |-> IF f = "_id" THEN id ELSE update[f]])
    ELSE LET i == CHOOSE j \in Matching(coll, id) : \A k \in Matching(coll, id) : j <= k
         IN  [coll EXCEPT ![i] = [g \in DOMAIN coll[i] |->
                 IF g \in DOMAIN update /\ update[g] # Undef THEN update[g] ELSE coll[i][g]]]

\* findOneAndUpdate({_id: id}, {$set: update}, {returnDocument: 'after'}):
\* the collection afterwards; no document is created when none matches
findOneAndUpdate(coll, id, update) ==
    IF Matching(coll, id) = {} THEN coll
    ELSE LET i == CHOOSE j \in Matching(coll, id) : \A k \in Matching(coll, id) : j <= k
         IN  [coll EXCEPT ![i] = applySet(coll[i], update)]

PutLesson ==
    \E idv \in LessonIds, body \in LessonUpdates :
        LET update == coerceSpaces(body) IN
        /\ nReq < MaxRequests
        /\ nReq' = nReq + 1
        /\ req' = [op |-> "updateLesson", id |-> idv, body |-> body]
        /\ IF ObjectIdThrows(idv)
           THEN /\ res' = Response(500, "Failed to update lesson", <<>>)
                /\ UNCHANGED lessons
           ELSE IF Matching(lessons, ObjectId(idv)) = {}
           THEN /\ lessons' = findOneAndUpdate(lessons, ObjectId(idv), update)
                /\ res' = Response(404, "Lesson not found", <<>>)
           ELSE /\ lessons' = findOneAndUpdate(lessons, ObjectId(idv), update)
                /\ res' = Response(200, "",
                       CHOOSE d \in {lessons'[i] : i \in Matching(lessons', ObjectId(idv))} : TRUE)
        /\ UNCHANGED <<orders, nextId, seedPc>>

(***************************************************************************)
(* The seeding script: deleteMany({}) and then insertMany(seedLessons).    *)
(***************************************************************************)
\* a deletion that removes nothing
deleteMany_Nothing(coll) == coll

\* deleteMany({})
deleteMany(coll) == <<>>

SeedDelete ==
    /\ seedPc = "idle"
    /\ nReq < MaxRequests
    /\ nReq' = nReq + 1
    /\ lessons' = deleteMany(lessons)
    /\ seedPc' = "deleted"
    /\ req' = [op |-> "reseed"]
    /\ res' = Response(0, "", <<>>)
    /\ UNCHANGED <<orders, nextId>>

SeedInsert ==
    /\ seedPc = "deleted"
    /\ lessons' = lessons \o Inserted(seedLessons, nextId)
    /\ nextId' = nextId + Len(seedLessons)
    /\ seedPc' = "idle"
    /\ req' = [op |-> "reseed"]
    /\ res' = Response(0, "", Len(seedLessons))
    /\ UNCHANGED <<orders, nReq>>

Next ==
    \/ GetLessons
    \/ GetSearch
    \/ PostOrders
    \/ PutLesson
    \/ SeedDelete
    \/ SeedInsert

Spec == Init /\ [][Next]_vars

(***************************************************************************)
(* Lesson documents of both shapes, for the rendering of GET /lessons and  *)
(* GET /search: the database holds one lesson under the legacy field names *)
(* and one under the canonical names, with the same values.                *)
(***************************************************************************)
LegacyLesson(name, location, price, count) ==
    [NoFields EXCEPT !.topic = Str(name), !.space = Num(count),
        !.location = Str(location), !.price = Num(price),
        !.description = Str("Roleplay, listening drills, and everyday vocabulary."),
        !.image = Str("https://www.svgrepo.com/show/43090/french.svg")]

CanonicalLesson(name, location, price, count) ==
    [NoFields EXCEPT !.subject = Str(name), !.spaces = Num(count),
        !.location = Str(location), !.price = Num(price),
        !.description = Str("Roleplay, listening drills, and everyday vocabulary."),
        !.image = Str("https://www.svgrepo.com/show/43090/french.svg")]

ShapeNames == {"", "Music Ensemble", "Biology Lab"}
ShapeLocations == {"Music Room", "Room 305"}
ShapePrices == {0, 42}
ShapeCounts == {0, 5}

InitShapes ==
    /\ \E name \in ShapeNames, location \in ShapeLocations,
          price \in ShapePrices, count \in ShapeCounts :
           lessons = <<WithId(LegacyLesson(name, location, price, count), 1),
                       WithId(CanonicalLesson(name, location, price, count), 2)>>
    /\ orders = <<>>
    /\ nextId = 3
    /\ seedPc = "idle"
    /\ req = NoRequest
    /\ res = Response(0, "", <<>>)
    /\ nReq = 0

NextShapes ==
    \/ GetLessons
    \/ GetSearch

SpecShapes == InitShapes /\ [][NextShapes]_vars

(***************************************************************************)
(* Vocabulary of the properties.                                           *)
(***************************************************************************)
AbsentOrEmpty(v) == v = Undef \/ v = Str("")

NonEmptyString(v) == v.t = "str" /\ v.s # ""

WellFormedId(v) == v.t = "str" /\ IsDigits(v.s)

IdValue(v) == DigitsValue(v.s)

Exists(coll, id) == \E i \in 1..Len(coll) : coll[i]._id = id

IsPrefix(a, b) == Len(a) <= Len(b) /\ SubSeq(b, 1, Len(a)) = a

\* the token occurs in the string value v, ignoring case
Contains(v, token) ==
    /\ v.t = "str"
    /\ \E i \in 1..(Len(v.s) - Len(token) + 1) :
           toLowerCase(SubSeq(v.s, i, i + Len(token) - 1)) = toLowerCase(token)

TextMatch(doc, token) ==
    \/ Contains(doc.subject, token)
    \/ Contains(doc.topic, token)
    \/ Contains(doc.location, token)
    \/ Contains(doc.description, token)

IsNumeral(token) == Number(Str(token)).t = "num"

NumberMatch(doc, token) ==
    /\ IsNumeral(token)
    /\ \/ doc.price = Number(Str(token))
       \/ doc.spaces = Number(Str(token))
       \/ doc.space = Number(Str(token))

\* the lessons the search of a non-empty token is specified to return
Selected(coll, token) ==
    SelectSeq(coll, LAMBDA doc : TextMatch(doc, token) \/ NumberMatch(doc, token))

\* the token of a search request, trimmed and in lower case
Token(r) == IF r.q.t = "str" THEN toLowerCase(trim(r.q.s)) ELSE ""

\* the stored document a response entry was made from
DocOf(coll, entry) == CHOOSE doc \in {coll[i] : i \in 1..Len(coll)} : IdToString(doc._id) = entry.id

----
\* C1: createOrder with name absent/empty, phone absent/empty, or items that
\* is not a non-empty list answers 400 and leaves both collections as they were.
C1_InvalidOrderRejected ==
    [][(/\ req'.op = "createOrder"
        /\ \/ AbsentOrEmpty(req'.body.name)
           \/ AbsentOrEmpty(req'.body.phone)
           \/ ~req'.body.items.arr
           \/ req'.body.items.elems = <<>>)
       => (res'.status = 400 /\ orders' = orders /\ lessons' = lessons)]_vars

\* an order exists and a request with an empty name has just been refused
C1_Witness ==
    /\ req.op = "createOrder"
    /\ req.body.name = Str("")
    /\ res.status = 400
    /\ Len(orders) = 1

\* C2: a malformed lesson identifier, in an order item or as the :id of an
\* update, is answered with 400, not 404 and not 500, and nothing is written.
C2_MalformedIdIsClientError ==
    /\ (req.op = "updateLesson" /\ ~WellFormedId(req.id))
           => res.status = 400
    /\ (/\ req.op = "createOrder"
        /\ NonEmptyString(req.body.name) /\ NonEmptyString(req.body.phone)
        /\ req.body.items.arr
        /\ \E i \in 1..Len(req.body.items.elems) :
               ~WellFormedId(req.body.items.elems[i].lessonId))
           => res.status = 400

\* C3: no stored lesson has available spaces below zero.
C3_SpacesNeverNegative ==
    \A i \in 1..Len(lessons) :
        LET shown == Coalesce(lessons[i].spaces, lessons[i].space)
        IN  ~(shown.t = "num" /\ shown.n < 0)

\* C4: updateLesson with a well-formed identifier that matches no lesson
\* answers 404 and changes neither collection.
C4_UnknownLessonNotFound ==
    [][(/\ req'.op = "updateLesson"
        /\ WellFormedId(req'.id)
        /\ ~Exists(lessons, IdValue(req'.id)))
       => (res'.status = 404 /\ lessons' = lessons /\ orders' = orders)]_vars

\* lessons are stored and an update of an id none of them has was refused
C4_Witness ==
    /\ req.op = "updateLesson"
    /\ res.status = 404
    /\ Len(lessons) = Len(seedLessons)
    /\ ~Exists(lessons, IdValue(req.id))

CountMatches(stored, item) ==
    /\ stored.t = "num"
    /\ (item.spaces = Undef /\ item.quantity = Undef) => stored = Num(0)
    /\ (item.spaces # Undef /\ item.quantity = Undef) => stored = Number(item.spaces)
    /\ (item.spaces = Undef /\ item.quantity # Undef) => stored = Number(item.quantity)
    /\ (item.spaces # Undef /\ item.quantity # Undef) =>
           stored \in {Number(item.spaces), Number(item.quantity)}

\* C6: createOrder with non-empty name and phone and a non-empty list of
\* well-formed lesson identifiers appends exactly one order whose line items
\* equal the input, returns its identifier, needs no referenced lesson to
\* exist, and changes no lesson; no operation changes or removes an order.
C6_OrderCreatedAsSent ==
    [][/\ IsPrefix(orders, orders')
       /\ (/\ req'.op = "createOrder"
           /\ NonEmptyString(req'.body.name) /\ NonEmptyString(req'.body.phone)
           /\ req'.body.items.arr /\ req'.body.items.elems # <<>>
           /\ \A i \in 1..Len(req'.body.items.elems) :
                  WellFormedId(req'.body.items.elems[i].lessonId))
          => (/\ res'.status = 201
              /\ lessons' = lessons
              /\ Len(orders') = Len(orders) + 1
              /\ LET stored == orders'[Len(orders')]
                     sent == req'.body.items.elems
                 IN  /\ res'.body.id # ""
                     /\ res'.body.id = IdToString(stored._id)
                     /\ res'.body.doc = stored
                     /\ \A j \in 1..Len(orders) : orders[j]._id # stored._id
                     /\ stored.name = req'.body.name
                     /\ stored.phone = req'.body.phone
                     /\ Len(stored.items) = Len(sent)
                     /\ \A k \in 1..Len(sent) :
                           /\ IdToString(stored.items[k].lessonId) = sent[k].lessonId.s
                           /\ CountMatches(stored.items[k].spaces, sent[k]))]_vars

\* an order of two different line items was stored in the order sent, its
\* first item naming a lesson that does not exist
C6_Witness ==
    /\ req.op = "createOrder"
    /\ res.status = 201
    /\ Len(orders) = 1
    /\ Len(orders[1].items) = 2
    /\ ~Exists(lessons, orders[1].items[1].lessonId)
    /\ Exists(lessons, orders[1].items[2].lessonId)
    /\ orders[1].items[1].spaces = Num(3)
    /\ orders[1].items[2].spaces = Num(2)

\* C7: when a seeding run ends the lessons collection holds exactly the
\* entries of the fixed list, whatever it held before, and the run leaves
\* the orders as they were.
C7_ReseedLeavesExactlyTheList ==
    [][(req'.op = "reseed")
       => (/\ orders' = orders
           /\ (seedPc' = "idle" =>
                 /\ Len(lessons') = Len(seedLessons)
                 /\ \A i \in 1..Len(seedLessons) : Fields(lessons'[i]) = seedLessons[i]))]_vars

\* a seeding run has ended after an earlier request had been handled
C7_Witness ==
    /\ req.op = "reseed"
    /\ seedPc = "idle"
    /\ nReq = 2
    /\ Len(lessons) = Len(seedLessons)
    /\ lessons[1]._id > 1

\* C8: search returns, in the shape of listAll, every lesson when the
\* trimmed token is empty, and otherwise exactly the lessons that hold the
\* token as a case-insensitive substring of subject/topic, location or
\* description, or whose price or spaces equals the number the token denotes.
C8_SearchSelectsBySubstring ==
    (req.op = "search") =>
        /\ res.status = 200
        /\ res.body = IF Token(req) = "" THEN listAll(lessons).body
                      ELSE Payload(Selected(lessons, Token(req)))

\* C9: a lesson stored under the legacy names and one stored under the
\* canonical names with the same values are rendered identically, under
\* subject and spaces, and the legacy names are never exposed.
C9_LegacyRendersLikeCanonical ==
    (req.op \in {"listAll", "search"} /\ res.status = 200) =>
        /\ \A i \in 1..Len(res.body) : DOMAIN res.body[i] \cap {"topic", "space"} = {}
        /\ (req.op = "listAll" => Len(res.body) = 2)
        /\ Len(res.body) \in {0, 2}
        /\ (Len(res.body) = 2 =>
              \A f \in {"subject", "location", "price", "spaces", "description", "image"} :
                  res.body[1][f] = res.body[2][f])

\* C10: a lesson returned by a numeric search that holds the token in no
\* text field is shown with a price or a spaces value equal to that number.
C10_NumericSearchAgreesWithDisplay ==
    (req.op = "search" /\ res.status = 200 /\ Token(req) # "" /\ IsNumeral(Token(req))) =>
        \A i \in 1..Len(res.body) :
            \/ TextMatch(DocOf(lessons, res.body[i]), Token(req))
            \/ res.body[i].price = Number(Str(Token(req)))
            \/ res.body[i].spaces = Number(Str(Token(req)))

====
